---- MODULE Spec2Model ----
(***************************************************************************)
(* Model of the banner-img Cloudflare Worker (src/src/index.ts): one fetch *)
(* handler that looks Unsplash photo metadata up in Workers KV, fetches it *)
(* from the Unsplash API on a miss and stores it, then fetches the image   *)
(* and answers with it and three attribution headers.                      *)
(*                                                                         *)
(* Each request is one invocation of the handler.  The code between two    *)
(* awaits runs atomically; every await (CACHE.get, fetch of the API,       *)
(* .json(), CACHE.put, fetch of the image) is one action that settles the  *)
(* awaited promise, by resolving or by throwing, and runs the handler up   *)
(* to its next await or return.  Invocations interleave at the awaits.     *)
(*                                                                         *)
(* Strings the handler concatenates are sequences of tokens, so that       *)
(* concatenation is \o and two different inputs can give the same string.  *)
(***************************************************************************)
EXTENDS Integers, Sequences, FiniteSets, TLC

\* ------------------------------------------------------------------ bounds

\* Invocations of the handler in one run, concurrent or one after another.
MaxRequests == 2
\* Longest value of a query parameter, in characters.
MaxLen == 1
\* Longest value of the CACHE_DURATION variable, in characters.
MaxDurLen == 1

Requests == 1..MaxRequests

\* ------------------------------------------------------- strings and values

\* Characters of a query parameter: an ordinary one and the key's delimiter.
Chars == {"a", ":"}
\* Characters of CACHE_DURATION: a digit and a non-digit.
DurChars == {"6", "a"}

StringsOver(alphabet, n) == UNION {[1..k -> alphabet] : k \in 0..n}

\* searchParams.get(name) when the URL has no such parameter.
Null == <<"null">>
\* env.CACHE_DURATION when the variable is not configured.
Undefined == <<"undefined">>

QueryParams == {Null} \cup StringsOver(Chars, MaxLen)
CacheDurations == {Undefined} \cup StringsOver(DurChars, MaxDurLen)

\* A JavaScript number: an integer or NaN.
Num(n) == [nan |-> FALSE, n |-> n]
NaN == [nan |-> TRUE, n |-> 0]

\* `p || ''` of lines 18-19: null and the empty string both give ''.
OrEmpty(p) == IF p = Null \/ p = <<>> THEN <<>> ELSE p

\* Line 22: `unsplash:${keywords}:${cacheKeyParam}`.
CacheKey(keywords, cacheKeyParam) ==
    <<"unsplash:">> \o keywords \o <<":">> \o cacheKeyParam

AllKeys ==
    {CacheKey(OrEmpty(k), OrEmpty(c)) : k \in QueryParams, c \in QueryParams}

\* encodeURIComponent of line 29: ':' is escaped, a letter is kept.
EncodeURIComponent(s) ==
    [i \in 1..Len(s) |-> IF s[i] = ":" THEN "%3A" ELSE s[i]]

\* Line 29: the URL of the metadata request.
UnsplashUrl(keywords) ==
    <<"https://api.unsplash.com/photos/random?orientation=landscape&query=">>
        \o EncodeURIComponent(keywords)

\* --------------------------------------------------------------- JSON values

\* A JSON value of the provider: null, or an object with or without the
\* fields of UnsplashApiResponse (lines 83-101).  A missing field is "".
JsonNull ==
    [kind |-> "null", urls |-> FALSE, raw |-> "", user |-> FALSE, name |-> "",
     userLink |-> "", links |-> FALSE, link |-> ""]

PhotoA ==
    [kind |-> "object", urls |-> TRUE, raw |-> "https://images/a?ixid=1",
     user |-> TRUE, name |-> "Ann", userLink |-> "https://unsplash.com/@ann",
     links |-> TRUE, link |-> "https://unsplash.com/photos/a"]

PhotoB ==
    [kind |-> "object", urls |-> TRUE, raw |-> "https://images/b?ixid=2",
     user |-> TRUE, name |-> "Bob", userLink |-> "https://unsplash.com/@bob",
     links |-> TRUE, link |-> "https://unsplash.com/photos/b"]

\* An object without urls, user and links, such as {"errors": [...]}.
NoFields ==
    [kind |-> "object", urls |-> FALSE, raw |-> "", user |-> FALSE, name |-> "",
     userLink |-> "", links |-> FALSE, link |-> ""]

\* An object with urls.raw and nothing else.
UrlsOnly ==
    [kind |-> "object", urls |-> TRUE, raw |-> "https://images/c?ixid=3",
     user |-> FALSE, name |-> "", userLink |-> "", links |-> FALSE, link |-> ""]

\* What unsplashResponse.json() can resolve to.
JsonValues == {PhotoA, PhotoB, NoFields, UrlsOnly, JsonNull}

\* The values that are an UnsplashApiResponse: all required fields present.
IsMetadataRecord(d) == d.kind = "object" /\ d.urls /\ d.user /\ d.links

\* Truthy with the bug of never using the cached value.
M_Truthy(v) == FALSE

\* JavaScript truthiness of a JSON value (line 27, `!unsplashData`): of the
\* values above only null is falsy.
Truthy(v) == v.kind # "null"

\* JSON.stringify of line 46: the text, as a sequence of tokens.
Stringify(d) ==
    IF d.kind = "null" THEN <<"null">>
    ELSE <<"{">>
         \o (IF d.urls THEN <<"urls.raw", d.raw>> ELSE <<>>)
         \o (IF d.user THEN <<"user.name", d.name, "user.links.html", d.userLink>>
             ELSE <<>>)
         \o (IF d.links THEN <<"links.html", d.link>> ELSE <<>>)
         \o <<"}">>

\* The JSON parse of CACHE.get(key, {type: 'json'}) (line 25).
ParseJson(t) ==
    IF t = <<"null">> THEN JsonNull
    ELSE LET has(k) == \E i \in 1..Len(t) : t[i] = k
             val(k) == IF has(k) THEN t[(CHOOSE i \in 1..Len(t) : t[i] = k) + 1]
                       ELSE ""
         IN  [kind |-> "object",
              urls |-> has("urls.raw"), raw |-> val("urls.raw"),
              user |-> has("user.name"), name |-> val("user.name"),
              userLink |-> val("user.links.html"),
              links |-> has("links.html"), link |-> val("links.html")]

\* ------------------------------------------------------------ configuration

DigitValue(c) == IF c = "6" THEN 6 ELSE 0
IsDigit(c) == c = "6"

RECURSIVE DigitsPrefix(_)
\* The longest prefix of s made of digits.
DigitsPrefix(s) ==
    IF s = <<>> \/ ~IsDigit(Head(s)) THEN <<>>
    ELSE <<Head(s)>> \o DigitsPrefix(Tail(s))

RECURSIVE Decimal(_)
Decimal(ds) ==
    IF ds = <<>> THEN 0
    ELSE 10 * Decimal(SubSeq(ds, 1, Len(ds) - 1)) + DigitValue(ds[Len(ds)])

\* parseInt(s, 10) of line 45: the number the leading digits write, NaN when
\* s does not start with a digit.  (Signs and white space are not among
\* DurChars.)
ParseInt(s) ==
    IF DigitsPrefix(s) = <<>> THEN NaN ELSE Num(Decimal(DigitsPrefix(s)))

\* CacheDuration with the bug of no default: parseInt of whatever is there.
M_CacheDuration(duration) ==
    IF duration = Undefined THEN NaN ELSE ParseInt(duration)

\* Line 45: env.CACHE_DURATION ? parseInt(env.CACHE_DURATION, 10) : 900.
\* undefined and '' are falsy.
CacheDuration(duration) ==
    IF duration = Undefined \/ duration = <<>> THEN Num(900)
    ELSE ParseInt(duration)

\* ------------------------------------------------------------ HTTP responses

\* response.ok: a status in 200..299.
Ok(status) == status \in 200..299

\* The statuses a response cannot carry a body with.
NullBodyStatus(status) == status \in {101, 103, 204, 205, 304}

\* A header a response does not carry.
NoHeader == "(no header)"
\* A response without a body (response.body is null).
NullBody == "(null body)"

\* Statuses of the metadata provider's answer.
ProviderStatuses == {200, 304, 503}

StatusText(status) ==
    CASE status = 200 -> "OK"
      [] status = 204 -> "No Content"
      [] status = 404 -> "Not Found"
      [] OTHER -> ""

\* Answers of the image origin: a status, its text, a body unless the status
\* allows none, a Content-Type that may be missing or empty, and one more
\* header.
ImageResponses ==
    {[status |-> 200, statusText |-> StatusText(200), body |-> "image bytes",
      contentType |-> ct, etag |-> "e1"] : ct \in {NoHeader, "", "image/webp"}}
    \cup {[status |-> 204, statusText |-> StatusText(204), body |-> NullBody,
           contentType |-> NoHeader, etag |-> NoHeader],
          [status |-> 404, statusText |-> StatusText(404), body |-> "not found",
           contentType |-> "text/html", etag |-> NoHeader]}

\* Before the image fetch has resolved.
NoImage ==
    [status |-> 0, statusText |-> "", body |-> NullBody,
     contentType |-> NoHeader, etag |-> NoHeader]

\* The headers of a response the handler builds from a string body alone.
TextHeaders ==
    [contentType |-> "text/plain;charset=UTF-8", etag |-> NoHeader,
     photographer |-> NoHeader, photographerLink |-> NoHeader,
     unsplashLink |-> NoHeader]

\* ContentType with the bug of no fallback.
M_ContentType(img) == img.contentType

\* `headers.get('Content-Type') || 'image/jpeg'` of line 66: a missing header
\* (null) and an empty one are falsy.
ContentType(img) ==
    IF img.contentType = NoHeader \/ img.contentType = ""
    THEN "image/jpeg" ELSE img.contentType

\* Lines 60-69: the image response's headers, Content-Type and the three
\* attribution headers set.
SuccessHeaders(img, d) ==
    [contentType |-> ContentType(img), etag |-> img.etag,
     photographer |-> d.name, photographerLink |-> d.userLink,
     unsplashLink |-> d.link]

\* new Response(body, {status, ...}) throws a RangeError for a status outside
\* 200..599 and a TypeError for a body with a null-body status.
ResponseThrows(body, status) ==
    \/ status \notin 200..599
    \/ body # NullBody /\ NullBodyStatus(status)

NewResponse(body, status, statusText, headers) ==
    [status |-> status, statusText |-> statusText, body |-> body,
     headers |-> headers]

\* InternalServerError with the bug of reporting the failure to the caller.
M_InternalServerError ==
    [status |-> 500, statusText |-> "", body |-> "TypeError: Cannot read properties",
     headers |-> [contentType |-> "text/plain;charset=UTF-8", etag |-> NoHeader,
                  photographer |-> NoHeader, photographerLink |-> NoHeader,
                  unsplashLink |-> NoHeader]]

\* Line 77.
InternalServerError == NewResponse("Internal Server Error", 500, "", TextHeaders)

\* No response yet.
NoResponse == NewResponse(NullBody, 0, "", TextHeaders)

\* Line 50: `${unsplashData.urls.raw}&fm=webp&q=80&w=1920&fit=max`.
ImageUrl(d) == <<d.raw, "&fm=webp&q=80&w=1920&fit=max">>

\* --------------------------------------------------------------------- state

VARIABLES
    env,            \* env.CACHE_DURATION of the deployment
    cache,          \* the KV namespace env.CACHE: key -> stored text, <<>> if none
    pc,             \* per request: the await the handler is suspended at
    keywords,       \* per request: line 18
    cacheKeyParam,  \* per request: line 19
    cacheKey,       \* per request: line 22
    unsplashData,   \* per request: lines 25 and 42
    unsplashStatus, \* per request: unsplashResponse.status (line 31), 0 before
    pending,        \* per request: the arguments of the call awaited
    imageUrl,       \* per request: line 50
    imageResponse,  \* per request: line 53
    response,       \* per request: the Response returned
    lookup,         \* per request: what CACHE.get resolved to (history)
    threw,          \* per request: the step that threw, "none" if none (history)
    calls,          \* per request: the external calls made, in order (history)
    putOrder        \* requests whose CACHE.put resolved, in order (history)

vars == <<env, cache, pc, keywords, cacheKeyParam, cacheKey, unsplashData,
          unsplashStatus, pending, imageUrl, imageResponse, response, lookup,
          threw, calls, putOrder>>

\* The arguments of an external call: the key or URL, and for a put the value
\* and the expirationTtl.
Call(target, value, ttl) == [target |-> target, value |-> value, ttl |-> ttl]
NoCall == Call(<<>>, <<>>, NaN)

Init ==
    /\ env \in CacheDurations
    /\ cache = [k \in AllKeys |-> <<>>]
    /\ pc = [r \in Requests |-> "idle"]
    /\ keywords = [r \in Requests |-> <<>>]
    /\ cacheKeyParam = [r \in Requests |-> <<>>]
    /\ cacheKey = [r \in Requests |-> <<>>]
    /\ unsplashData = [r \in Requests |-> JsonNull]
    /\ unsplashStatus = [r \in Requests |-> 0]
    /\ pending = [r \in Requests |-> NoCall]
    /\ imageUrl = [r \in Requests |-> <<>>]
    /\ imageResponse = [r \in Requests |-> NoImage]
    /\ response = [r \in Requests |-> NoResponse]
    /\ lookup = [r \in Requests |-> JsonNull]
    /\ threw = [r \in Requests |-> "none"]
    /\ calls = [r \in Requests |-> <<>>]
    /\ putOrder = <<>>

\* ----------------------------------------------------------- handler pieces

\* The handler returns resp (a return statement, or the catch of line 76).
Return(r, resp) ==
    /\ pc' = [pc EXCEPT ![r] = "done"]
    /\ response' = [response EXCEPT ![r] = resp]
    /\ pending' = [pending EXCEPT ![r] = NoCall]

\* Lines 76-78: an exception thrown at `step` is caught.
Catch(r, step) ==
    /\ Return(r, InternalServerError)
    /\ threw' = [threw EXCEPT ![r] = step]

\* `return new Response(body, {status, ...})` inside the try block.
Respond(r, body, status, statusText, headers) ==
    IF ResponseThrows(body, status)
    THEN Catch(r, "response")
    ELSE /\ Return(r, NewResponse(body, status, statusText, headers))
         /\ UNCHANGED threw

\* Lines 50-53, with unsplashData = d: build the image URL and fetch it.
\* Reading .raw of a missing urls throws.
FetchImage(r, d) ==
    IF ~d.urls
    THEN /\ Catch(r, "field")
         /\ UNCHANGED <<calls, imageUrl>>
    ELSE /\ pc' = [pc EXCEPT ![r] = "awaitImage"]
         /\ imageUrl' = [imageUrl EXCEPT ![r] = ImageUrl(d)]
         /\ pending' = [pending EXCEPT ![r] = Call(ImageUrl(d), <<>>, NaN)]
         /\ calls' = [calls EXCEPT ![r] = Append(@, "image")]
         /\ UNCHANGED <<response, threw>>

\* ------------------------------------------------------------------- actions

\* Lines 17-25: a request arrives; the handler computes the key and calls
\* CACHE.get.  Requests are numbered in their order of arrival.
Receive(r) ==
    /\ pc[r] = "idle"
    /\ \A q \in Requests : q < r => pc[q] # "idle"
    /\ \E k \in QueryParams, c \in QueryParams :
        /\ keywords' = [keywords EXCEPT ![r] = OrEmpty(k)]
        /\ cacheKeyParam' = [cacheKeyParam EXCEPT ![r] = OrEmpty(c)]
        /\ cacheKey' = [cacheKey EXCEPT ![r] = CacheKey(OrEmpty(k), OrEmpty(c))]
        /\ pending' = [pending EXCEPT ![r] =
                          Call(CacheKey(OrEmpty(k), OrEmpty(c)), <<>>, NaN)]
    /\ pc' = [pc EXCEPT ![r] = "awaitGet"]
    /\ calls' = [calls EXCEPT ![r] = Append(@, "get")]
    /\ UNCHANGED <<env, cache, unsplashData, unsplashStatus, imageUrl,
                   imageResponse, response, lookup, threw, putOrder>>

\* CACHE.get(key, {type: 'json'}): null when the store has no entry.  A read
\* returns the last value written (the store's propagation delay between
\* locations is not modelled).
KvGet(key) == IF cache[key] = <<>> THEN JsonNull ELSE ParseJson(cache[key])

\* Lines 25-36 and 50-53: CACHE.get settles.  On a truthy value the handler
\* goes on to the image; otherwise it calls the metadata provider.
CacheGetSettle(r) ==
    /\ pc[r] = "awaitGet"
    /\ \/ /\ Catch(r, "get")
          /\ UNCHANGED <<unsplashData, lookup, calls, imageUrl>>
       \/ LET v == KvGet(pending[r].target) IN
          /\ lookup' = [lookup EXCEPT ![r] = v]
          /\ unsplashData' = [unsplashData EXCEPT ![r] = v]
          /\ IF Truthy(v)
             THEN FetchImage(r, v)
             ELSE /\ pc' = [pc EXCEPT ![r] = "awaitProvider"]
                  /\ pending' = [pending EXCEPT ![r] =
                                    Call(UnsplashUrl(keywords[r]), <<>>, NaN)]
                  /\ calls' = [calls EXCEPT ![r] = Append(@, "provider")]
                  /\ UNCHANGED <<response, threw, imageUrl>>
    /\ UNCHANGED <<env, cache, keywords, cacheKeyParam, cacheKey, unsplashStatus,
                   imageResponse, putOrder>>

\* Lines 31-42: the provider fetch settles.  A status that is not ok is
\* returned with a fixed body; otherwise the handler calls .json().
ProviderSettle(r) ==
    /\ pc[r] = "awaitProvider"
    /\ \/ /\ Catch(r, "provider")
          /\ UNCHANGED unsplashStatus
       \/ \E s \in ProviderStatuses :
            /\ unsplashStatus' = [unsplashStatus EXCEPT ![r] = s]
            /\ IF ~Ok(s)
               THEN Respond(r, "Error fetching image from Unsplash", s, "",
                            TextHeaders)
               ELSE /\ pc' = [pc EXCEPT ![r] = "awaitJson"]
                    /\ UNCHANGED <<pending, response, threw>>
    /\ UNCHANGED <<env, cache, keywords, cacheKeyParam, cacheKey, unsplashData,
                   imageUrl, imageResponse, lookup, calls, putOrder>>

\* JsonSettle with the bug of fetching the image before (and instead of)
\* storing the metadata.
M_JsonSettle(r) ==
    /\ pc[r] = "awaitJson"
    /\ \/ /\ Catch(r, "json")
          /\ UNCHANGED <<unsplashData, calls, imageUrl>>
       \/ \E d \in JsonValues :
            /\ unsplashData' = [unsplashData EXCEPT ![r] = d]
            /\ FetchImage(r, d)
    /\ UNCHANGED <<env, cache, keywords, cacheKeyParam, cacheKey, unsplashStatus,
                   imageResponse, lookup, putOrder>>

\* Lines 42-46: .json() settles; the handler computes the duration and calls
\* CACHE.put.
JsonSettle(r) ==
    /\ pc[r] = "awaitJson"
    /\ \/ /\ Catch(r, "json")
          /\ UNCHANGED <<unsplashData, calls>>
       \/ \E d \in JsonValues :
            /\ unsplashData' = [unsplashData EXCEPT ![r] = d]
            /\ pc' = [pc EXCEPT ![r] = "awaitPut"]
            /\ pending' = [pending EXCEPT ![r] =
                              Call(cacheKey[r], Stringify(d), CacheDuration(env))]
            /\ calls' = [calls EXCEPT ![r] = Append(@, "put")]
            /\ UNCHANGED <<response, threw>>
    /\ UNCHANGED <<env, cache, keywords, cacheKeyParam, cacheKey, unsplashStatus,
                   imageUrl, imageResponse, lookup, putOrder>>

\* KvPut with the bug of keeping an entry that is already there.
M_KvPut(key, value) ==
    IF cache[key] # <<>> THEN cache ELSE [cache EXCEPT ![key] = value]

\* The store after put(key, value): the entry is replaced.
KvPut(key, value) == [cache EXCEPT ![key] = value]

\* Lines 46-53: CACHE.put settles: it throws and stores nothing, or stores and
\* resolves, and the handler goes on to the image.
PutSettle(r) ==
    /\ pc[r] = "awaitPut"
    /\ \/ /\ Catch(r, "put")
          /\ UNCHANGED <<cache, calls, putOrder, imageUrl>>
       \/ /\ cache' = KvPut(pending[r].target, pending[r].value)
          /\ putOrder' = Append(putOrder, r)
          /\ FetchImage(r, unsplashData[r])
    /\ UNCHANGED <<env, keywords, cacheKeyParam, cacheKey, unsplashData,
                   unsplashStatus, imageResponse, lookup>>

\* Lines 53-75: the image fetch settles.
ImageSettle(r) ==
    /\ pc[r] = "awaitImage"
    /\ \/ /\ Catch(r, "image")
          /\ UNCHANGED imageResponse
       \/ \E img \in ImageResponses :
            /\ imageResponse' = [imageResponse EXCEPT ![r] = img]
            /\ IF ~Ok(img.status) \/ img.body = NullBody
               THEN Respond(r, "Error fetching image", img.status, "", TextHeaders)
               ELSE IF ~unsplashData[r].user \/ ~unsplashData[r].links
               THEN Catch(r, "field")
               ELSE Respond(r, img.body, img.status, img.statusText,
                            SuccessHeaders(img, unsplashData[r]))
    /\ UNCHANGED <<env, cache, keywords, cacheKeyParam, cacheKey, unsplashData,
                   unsplashStatus, imageUrl, lookup, calls, putOrder>>

\* The store drops an entry whose expiration has passed.
Expire(k) ==
    /\ cache[k] # <<>>
    /\ cache' = [cache EXCEPT ![k] = <<>>]
    /\ UNCHANGED <<env, pc, keywords, cacheKeyParam, cacheKey, unsplashData,
                   unsplashStatus, pending, imageUrl, imageResponse, response,
                   lookup, threw, calls, putOrder>>

Next ==
    \/ \E r \in Requests :
        \/ Receive(r)
        \/ CacheGetSettle(r)
        \/ ProviderSettle(r)
        \/ JsonSettle(r)
        \/ PutSettle(r)
        \/ ImageSettle(r)
    \/ \E k \in AllKeys : Expire(k)

Spec == Init /\ [][Next]_vars

\* ------------------------------------------------------- reading the history

Done(r) == pc[r] = "done"

\* How many times request r made the external call op.
Count(r, op) == Cardinality({i \in 1..Len(calls[r]) : calls[r][i] = op})

\* CACHE.get has resolved for r.
GetResolved(r) == pc[r] \notin {"idle", "awaitGet"} /\ threw[r] # "get"

\* r's lookup found nothing it could use, and r went to the provider.
Missed(r) == GetResolved(r) /\ lookup[r] = JsonNull

\* r's CACHE.put has resolved.
Stored(r) == \E i \in 1..Len(putOrder) : putOrder[i] = r

NoAttribution(resp) ==
    /\ resp.headers.photographer = NoHeader
    /\ resp.headers.photographerLink = NoHeader
    /\ resp.headers.unsplashLink = NoHeader

\* --------------------------------------------------------------------- C1

\* C1: a request whose cache lookup returned a MetadataRecord never contacts
\* the metadata provider, and has contacted the image origin exactly once,
\* with the URL made of the cached record's urls.raw.
C1_HitSkipsProvider ==
    \A r \in Requests :
        IsMetadataRecord(lookup[r]) =>
            /\ Count(r, "provider") = 0
            /\ Count(r, "put") = 0
            /\ Count(r, "image") = 1
            /\ imageUrl[r] = <<lookup[r].raw, "&fm=webp&q=80&w=1920&fit=max">>

C1_Witness ==
    \E r \in Requests :
        /\ IsMetadataRecord(lookup[r])
        /\ Done(r)
        /\ response[r].status = 200

\* --------------------------------------------------------------------- C2

AllDigits(s) == \A i \in 1..Len(s) : IsDigit(s[i])

\* What C2 says of a put in flight: the request's key, the serialization of
\* the metadata just received, the configured duration or 900.
C2_PutArguments(r) ==
    /\ Count(r, "put") = 1
    /\ pending[r].target = <<"unsplash:">> \o keywords[r] \o <<":">> \o cacheKeyParam[r]
    /\ ParseJson(pending[r].value) = unsplashData[r]
    /\ env = Undefined => pending[r].ttl = Num(900)
    /\ (env # Undefined /\ env # <<>> /\ AllDigits(env)) =>
            pending[r].ttl = Num(Decimal(env))

\* C2 as stated: every request that missed and got a successful provider
\* response made exactly one cache write, with those arguments.
C2_Original ==
    \A r \in Requests :
        /\ pc[r] = "awaitPut" => C2_PutArguments(r)
        /\ (Done(r) /\ Missed(r) /\ Ok(unsplashStatus[r])) => Count(r, "put") = 1

\* C2 amended: every request that missed, got a successful provider response
\* and parsed its body as JSON made exactly one cache write, under its key,
\* with the serialization of the metadata just received and the configured
\* duration (900 when none is configured).
C2_OneWrite ==
    \A r \in Requests :
        /\ pc[r] = "awaitPut" => C2_PutArguments(r)
        /\ (Done(r) /\ Missed(r) /\ Ok(unsplashStatus[r]) /\ threw[r] # "json") =>
                Count(r, "put") = 1
        /\ Count(r, "put") <= 1

C2_Witness ==
    \E r \in Requests :
        /\ Done(r) /\ Missed(r) /\ Ok(unsplashStatus[r])
        /\ Count(r, "put") = 1
        /\ response[r].status = 200

\* --------------------------------------------------------------------- C3

\* C3 as stated: when the provider answers a miss with a status that is not
\* ok, the response has that status and the fixed body, no attribution
\* header, and neither the image origin nor the provider again was contacted.
C3_Original ==
    \A r \in Requests :
        (Done(r) /\ unsplashStatus[r] # 0 /\ ~Ok(unsplashStatus[r])) =>
            /\ response[r].status = unsplashStatus[r]
            /\ response[r].body = "Error fetching image from Unsplash"
            /\ NoAttribution(response[r])
            /\ Count(r, "image") = 0
            /\ Count(r, "provider") = 1

\* --------------------------------------------------------------------- C4

\* C4 as stated: when the image response is not ok or has no body, the
\* response has the image response's status and the fixed body, and no
\* attribution header, after a hit and after a miss.
C4_Original ==
    \A r \in Requests :
        (Done(r) /\ imageResponse[r] # NoImage
           /\ (~Ok(imageResponse[r].status) \/ imageResponse[r].body = NullBody)) =>
            /\ response[r].status = imageResponse[r].status
            /\ response[r].body = "Error fetching image"
            /\ NoAttribution(response[r])

\* --------------------------------------------------------------------- C5

\* Some step of r is enabled.
CanStep(r) ==
    ENABLED (CacheGetSettle(r) \/ ProviderSettle(r) \/ JsonSettle(r)
             \/ PutSettle(r) \/ ImageSettle(r))

\* C5: a request has a response exactly when it has ended, a request that has
\* not ended can always take its next step, and a request in which any step
\* threw has ended with status 500, the body 'Internal Server Error' and no
\* attribution header.
C5_ThrowGives500 ==
    \A r \in Requests :
        /\ Done(r) <=> response[r] # NoResponse
        /\ pc[r] \notin {"idle", "done"} => CanStep(r)
        /\ threw[r] # "none" =>
            /\ Done(r)
            /\ response[r].status = 500
            /\ response[r].statusText = ""
            /\ response[r].body = "Internal Server Error"
            /\ response[r].headers.etag = NoHeader
            /\ NoAttribution(response[r])

C5_Witness ==
    \E r \in Requests :
        /\ Done(r)
        /\ threw[r] = "response"
        /\ response[r].status = 500

\* --------------------------------------------------------------------- C6

FullSuccess(r) ==
    /\ Done(r)
    /\ IsMetadataRecord(unsplashData[r])
    /\ Ok(imageResponse[r].status)
    /\ imageResponse[r].body # NullBody

\* What C6 says of the response apart from Content-Type.
C6_Copied(r) ==
    /\ response[r].status = imageResponse[r].status
    /\ response[r].statusText = imageResponse[r].statusText
    /\ response[r].body = imageResponse[r].body
    /\ response[r].headers.etag = imageResponse[r].etag
    /\ response[r].headers.photographer = unsplashData[r].name
    /\ response[r].headers.photographerLink = unsplashData[r].userLink
    /\ response[r].headers.unsplashLink = unsplashData[r].link
    /\ imageUrl[r] = <<unsplashData[r].raw, "&fm=webp&q=80&w=1920&fit=max">>

\* C6 as stated: on full success the response copies the image response and
\* the record's attribution, with the image's Content-Type, or 'image/jpeg'
\* if the image response has none.
C6_Original ==
    \A r \in Requests :
        FullSuccess(r) =>
            /\ C6_Copied(r)
            /\ response[r].headers.contentType =
                  IF imageResponse[r].contentType = NoHeader
                  THEN "image/jpeg" ELSE imageResponse[r].contentType

\* C6 amended: as stated, but Content-Type is 'image/jpeg' when the image
\* response's Content-Type is absent or empty.
C6_SuccessResponse ==
    \A r \in Requests :
        FullSuccess(r) =>
            /\ C6_Copied(r)
            /\ response[r].headers.contentType =
                  IF imageResponse[r].contentType \in {NoHeader, ""}
                  THEN "image/jpeg" ELSE imageResponse[r].contentType

C6_Witness ==
    \E r \in Requests :
        /\ FullSuccess(r)
        /\ imageResponse[r].contentType = ""
        /\ response[r].headers.photographer = "Bob"

\* --------------------------------------------------------------------- C7

\* parseInt reads a number from s.
Parseable(s) == s # Undefined /\ s # <<>> /\ IsDigit(s[1])

\* C7 as stated: the expirationTtl of a put is the integer CACHE_DURATION
\* writes when it is configured and parseable, 900 otherwise, and never
\* anything but an integer.
C7_Original ==
    \A r \in Requests :
        pc[r] = "awaitPut" =>
            /\ ~pending[r].ttl.nan
            /\ Parseable(env) => pending[r].ttl = Num(Decimal(DigitsPrefix(env)))
            /\ ~Parseable(env) => pending[r].ttl = Num(900)

\* --------------------------------------------------------------------- C8

Arrived(r) == pc[r] # "idle"

\* C8 as stated: the key is 'unsplash:' + keywords + ':' + cacheKeyParam, the
\* same pair gives the same key, and two different pairs give different keys.
C8_Original ==
    \A r1, r2 \in Requests :
        (Arrived(r1) /\ Arrived(r2)) =>
            /\ cacheKey[r1] =
                  <<"unsplash:">> \o keywords[r1] \o <<":">> \o cacheKeyParam[r1]
            /\ cacheKey[r1] = cacheKey[r2] <=>
                  (keywords[r1] = keywords[r2]
                     /\ cacheKeyParam[r1] = cacheKeyParam[r2])

\* --------------------------------------------------------------------- C9

\* The request whose put under key k resolved last, 0 if none.
LastWriter(k) ==
    LET at == {i \in 1..Len(putOrder) : cacheKey[putOrder[i]] = k}
    IN  IF at = {} THEN 0
        ELSE putOrder[CHOOSE i \in at : \A j \in at : j <= i]

BothMissedAndStored(r1, r2) ==
    /\ r1 # r2
    /\ cacheKey[r1] = cacheKey[r2]
    /\ Missed(r1) /\ Missed(r2)
    /\ Count(r1, "provider") = 1 /\ Count(r2, "provider") = 1
    /\ Stored(r1) /\ Stored(r2)

\* C9 as stated: two requests with the same key that both missed and both
\* wrote have stored the same metadata.
C9_Original ==
    \A r1, r2 \in Requests :
        BothMissedAndStored(r1, r2) => unsplashData[r1] = unsplashData[r2]

\* C9 amended: two requests with the same key may both miss, both contact
\* the provider and both write, and may store different metadata; the entry
\* left in the cache is the one of the put that resolved last, and a request
\* that missed answers with the attribution of the metadata it received.
C9_LastWriteWins ==
    /\ \A k \in AllKeys :
        (cache[k] # <<>>) =>
            /\ LastWriter(k) # 0
            /\ ParseJson(cache[k]) = unsplashData[LastWriter(k)]
    /\ \A r \in Requests :
        (Missed(r) /\ Done(r) /\ response[r].status = 200) =>
            /\ Stored(r)
            /\ response[r].headers.photographer = unsplashData[r].name
            /\ response[r].headers.photographerLink = unsplashData[r].userLink
            /\ response[r].headers.unsplashLink = unsplashData[r].link

C9_Witness ==
    \E r1, r2 \in Requests :
        /\ BothMissedAndStored(r1, r2)
        /\ unsplashData[r1] # unsplashData[r2]
        /\ LastWriter(cacheKey[r1]) = r1
        /\ cache[cacheKey[r1]] # <<>>
        /\ Done(r1) /\ Done(r2)
        /\ response[r1].status = 200 /\ response[r2].status = 200

\* -------------------------------------------------------------------- C10

IsPrefix(s, t) == Len(s) <= Len(t) /\ s = SubSeq(t, 1, Len(s))

\* The external calls of a request come in the fixed order, each at most once.
C10_Order(r) ==
    \/ IsPrefix(calls[r], <<"get", "provider", "put", "image">>)
    \/ IsPrefix(calls[r], <<"get", "image">>)

C10_State ==
    \A r \in Requests :
        /\ C10_Order(r)
        /\ Done(r) <=> response[r] # NoResponse
        /\ (Missed(r) /\ (Count(r, "image") = 1 \/ threw[r] = "field")) => Stored(r)
        /\ (GetResolved(r) /\ lookup[r] # JsonNull) =>
            /\ unsplashData[r] = lookup[r]
            /\ Count(r, "provider") = 0

\* The part that holds of every step: a lookup that resolves while the store
\* holds, under the request's key, a record that is not null, returns that
\* record.
C10_Step ==
    \A r \in Requests :
        (/\ pc[r] = "awaitGet"
         /\ GetResolved(r)'
         /\ cache[cacheKey[r]] # <<>>
         /\ cache[cacheKey[r]] # <<"null">>) =>
            /\ lookup'[r] = unsplashData[LastWriter(cacheKey[r])]
            /\ Count(r, "provider")' = 0

====
